---- MODULE Spec2Model ----
(***************************************************************************)
(* State-machine model of diesel's SQLite connection core:                 *)
(*   src/diesel/src/sqlite/connection/mod.rs          (SqliteConnection)   *)
(*   src/diesel/src/query_builder/bind_collector.rs   (RawBytesBindCollector)*)
(*                                                                         *)
(* One connection used by one thread.  Calls are synchronous; a call that  *)
(* takes a closure (transaction) is split at the point where the closure   *)
(* runs, and prepare_query is split at each collector call and each        *)
(* statement.bind call, so that the intermediate states are visible.       *)
(***************************************************************************)
EXTENDS Integers, Sequences, FiniteSets, TLC

\* ------------------------------------------------------------------ bounds
MaxNest == 2     \* deepest nesting of transaction calls that is explored
MaxCalls == 5    \* most collector calls one query fragment makes
NumSql == 2      \* distinct SQL texts
MaxExec == 3     \* executions on one connection
MaxRows == 2     \* rows in a result set
MaxApply == 3    \* applications of a custom function in one statement
MaxArg == 2      \* largest argument given to a custom function
MaxCount == 5    \* invocations of a custom function that are explored

VARIABLES
    transaction_depth,  \* AnsiTransactionManager's depth counter
    ROTX,               \* thread_local ROTX: RefCell<bool>
    stack,              \* the transaction calls in progress, outermost first
    ret,                \* the transaction call that returned last
    statement_cache,    \* StatementCache: the cached SQL texts, in insertion order
    pq,                 \* the prepare_query call in progress (or its outcome)
    nrun,               \* per (sql, cacheable): statements handed out
    nprep,              \* per (sql, cacheable): successful Statement::prepare calls
    on_execute,         \* SqliteConnection.on_execute is Some(observer)
    last_exec,          \* the statement the engine ran last, and what the observer saw of it
    called_transaction, \* transaction(f) has been called on this thread
    udf                 \* the registered custom function and the statement applying it

vars == <<transaction_depth, ROTX, stack, ret, statement_cache, pq, nrun, nprep,
          on_execute, last_exec, called_transaction, udf>>
txvars == <<transaction_depth, ROTX, stack, ret, called_transaction>>
qvars == <<statement_cache, pq, nrun, nprep>>

\* ------------------------------------------------------- ReadonlyTx / ROTX

\* ReadonlyTx::new() stores true in ROTX.  The function has no return type:
\* it returns (), not a ReadonlyTx.
ReadonlyTx_new == TRUE

\* impl Drop for ReadonlyTx: stores false in ROTX.  (Never run: see below.)
ReadonlyTx_drop == FALSE

\* (variant: _ro_flag is a ReadonlyTx guard, dropped when the call returns)
ro_flag_scope_exit_mut_drop(rotx) == ReadonlyTx_drop
\* End of the scope of `let _ro_flag = ReadonlyTx::new();`.  _ro_flag holds
\* the () that new() returned, no ReadonlyTx value is ever constructed, so
\* nothing is dropped and ROTX keeps the value it has.
ro_flag_scope_exit(rotx) == rotx

is_readonly_tx == ROTX

\* ------------------------------------------------------------ on_execute

\* A statement handed to the engine: `sql` numbers a query's SQL text (0 for
\* a literal statement, whose text is `text`); registered: an observer was
\* set when it ran; notified: the observer was called with its SQL first.
Exec(via, sql, text, registered, notified) ==
    [ via |-> via, sql |-> sql, text |-> text,
      registered |-> registered, notified |-> notified ]

NoExec == Exec("none", 0, "", FALSE, FALSE)

\* SimpleConnection::batch_execute: the observer, if any, is called with the
\* query, then raw_connection.exec runs it.
batch_execute_exec(text, on) == Exec("batch_execute", 0, text, on, on)

\* The statements a transaction-manager call hands to conn.batch_execute.
manager_exec(sqls, on, last) ==
    IF sqls = <<>> THEN last ELSE batch_execute_exec(sqls[Len(sqls)], on)

\* cached_prepared_statement lines 274-279: the observer is called inside the
\* closure given to the cache as prepare_fn, so only when the cache calls it.
prepare_fn_notifies(on, called) == on /\ called

\* ------------------------------------------------ AnsiTransactionManager
\* (diesel/src/connection/transaction_manager.rs is not among the sources;
\*  modelled from the specification's state machine)

Res(ok) == IF ok THEN "Ok" ELSE "QueryError"

begin_transaction(d, ok) ==
    [ sql   |-> <<IF d = 0 THEN "BEGIN" ELSE "SAVEPOINT">>,
      depth |-> IF ok THEN d + 1 ELSE d,
      res   |-> Res(ok) ]

begin_transaction_sql(d, sql, ok) ==
    IF d = 0
    THEN [ sql |-> <<sql>>, depth |-> IF ok THEN 1 ELSE 0, res |-> Res(ok) ]
    ELSE [ sql |-> <<>>, depth |-> d, res |-> "AlreadyInTransaction" ]

commit_transaction(d, ok) ==
    [ sql   |-> <<IF d <= 1 THEN "COMMIT" ELSE "RELEASE SAVEPOINT">>,
      depth |-> d - 1,
      res   |-> Res(ok) ]

rollback_transaction(d, ok) ==
    [ sql   |-> <<IF d <= 1 THEN "ROLLBACK" ELSE "ROLLBACK TO SAVEPOINT">>,
      depth |-> d - 1,
      res   |-> Res(ok) ]

IsBegin(s) == s \in {"BEGIN", "SAVEPOINT", "BEGIN IMMEDIATE", "BEGIN EXCLUSIVE"}
IsCommit(s) == s \in {"COMMIT", "RELEASE SAVEPOINT"}
IsRollback(s) == s \in {"ROLLBACK", "ROLLBACK TO SAVEPOINT"}

\* No query is being executed on the thread (calls are synchronous).
QDone == pq.pc = "idle"

\* ------------------------------------------------------ transaction calls

NoRet == [ op |-> "none", depth0 |-> 0, depth1 |-> 0, began |-> FALSE,
           fres |-> "none", result |-> "none", issued |-> <<>> ]

Frame(op, d0, issued) == [ op |-> op, depth0 |-> d0, issued |-> issued ]

\* (variant: the result of begin is dropped and f runs regardless)
try_begin_mut_ignore(res) == FALSE
\* try!(..) / `?` on the result of begin: an Err returns from the call at once.
try_begin(res) == res # "Ok"

\* (variant: commits whatever f returned)
match_f_mut_always_commit(fres) == "commit"
\* (variant: Err(e) is returned without rolling back)
match_f_mut_no_rollback(fres) == IF fres = "Ok" THEN "commit" ELSE "none"
\* match f() { Ok(value) => commit_transaction, Err(e) => rollback_transaction }
match_f(fres) == IF fres = "Ok" THEN "commit" ELSE "rollback"

\* The value the call returns after f: try!(commit)/try!(rollback) returns the
\* manager's error converted with From, otherwise Ok(value) or Err(e).
CallResult(fres, end, mres) ==
    IF mres # "Ok"
    THEN (IF end = "commit" THEN "Err(CommitError)" ELSE "Err(RollbackError)")
    ELSE (IF fres = "Ok" THEN "Ok" ELSE "Err(e)")

\* The errors the value returned by a call carries: the manager's error is
\* converted with From into the E that is returned, and it replaces e.
ErrorsIn(result) ==
    IF result = "Err(e)" THEN {"e"}
    ELSE IF result = "Err(RollbackError)" THEN {"rollback"}
    ELSE IF result = "Err(CommitError)" THEN {"commit"}
    ELSE IF result \in {"Err(BeginError)", "Err(AlreadyInTransaction)"} THEN {"begin"}
    ELSE {}

\* Entry of a call up to the invocation of f (or the early return).
Enter(op, rotx, b) ==
    /\ Len(stack) < MaxNest
    /\ QDone
    /\ transaction_depth' = b.depth
    /\ called_transaction' = (called_transaction \/ op = "transaction")
    /\ last_exec' = manager_exec(b.sql, on_execute, last_exec)
    /\ IF try_begin(b.res)
       THEN /\ ret' = [ op |-> op, depth0 |-> transaction_depth, depth1 |-> b.depth,
                        began |-> FALSE, fres |-> "none",
                        result |-> IF b.res = "AlreadyInTransaction"
                                   THEN "Err(AlreadyInTransaction)"
                                   ELSE "Err(BeginError)",
                        issued |-> b.sql ]
            /\ ROTX' = (IF op = "transaction" THEN ro_flag_scope_exit(rotx) ELSE rotx)
            /\ UNCHANGED stack
       ELSE /\ stack' = Append(stack, Frame(op, transaction_depth, b.sql \o <<"f">>))
            /\ ROTX' = rotx
            /\ UNCHANGED ret
    /\ UNCHANGED <<qvars, udf, on_execute>>

\* Connection::transaction, lines 97-100: set the flag, begin, invoke f.
transaction(ok) ==
    Enter("transaction", ReadonlyTx_new, begin_transaction(transaction_depth, ok))

\* (variant: transaction_sql sets the flag as transaction does)
transaction_sql_mut_sets_flag(op, sql, ok) ==
    Enter(op, ReadonlyTx_new, begin_transaction_sql(transaction_depth, sql, ok))
\* SqliteConnection::transaction_sql, lines 227-230: begin with `sql`, invoke f.
transaction_sql(op, sql, ok) ==
    Enter(op, ROTX, begin_transaction_sql(transaction_depth, sql, ok))

immediate_transaction(ok) == transaction_sql("immediate_transaction", "BEGIN IMMEDIATE", ok)

exclusive_transaction(ok) == transaction_sql("exclusive_transaction", "BEGIN EXCLUSIVE", ok)

\* f returns `fres` to the innermost call in progress, which commits or rolls
\* back and returns (transaction lines 100-110, transaction_sql lines 230-240).
f_returns(fres, ok) ==
    /\ stack # <<>>
    /\ QDone
    /\ LET fr  == stack[Len(stack)]
           end == match_f(fres)
           m   == IF end = "commit" THEN commit_transaction(transaction_depth, ok)
                  ELSE IF end = "rollback" THEN rollback_transaction(transaction_depth, ok)
                  ELSE [ sql |-> <<>>, depth |-> transaction_depth, res |-> "Ok" ]
       IN  /\ transaction_depth' = m.depth
           /\ last_exec' = manager_exec(m.sql, on_execute, last_exec)
           /\ stack' = SubSeq(stack, 1, Len(stack) - 1)
           /\ ret' = [ op |-> fr.op, depth0 |-> fr.depth0, depth1 |-> m.depth,
                       began |-> TRUE, fres |-> fres,
                       result |-> CallResult(fres, end, m.res),
                       issued |-> fr.issued \o m.sql ]
           /\ ROTX' = (IF fr.op = "transaction" THEN ro_flag_scope_exit(ROTX) ELSE ROTX)
    /\ UNCHANGED <<qvars, udf, on_execute, called_transaction>>

\* ------------------------------------------------------------- values

None == [ is_some |-> FALSE, bytes |-> 0 ]
Some(b) == [ is_some |-> TRUE, bytes |-> b ]

Ok == [ kind |-> "Ok", cause |-> 0 ]
\* Error::SerializationError(cause): wraps the error to_sql returned
SerializationError(cause) == [ kind |-> "SerializationError", cause |-> cause ]
\* an engine error; `at` is 0 for Statement::prepare, j for the j-th bind
QueryError(at) == [ kind |-> "QueryError", cause |-> at ]
Panic == [ kind |-> "panic", cause |-> 0 ]

Min(a, b) == IF a <= b THEN a ELSE b

\* ------------------------------------------------------------- queries
\* A query fragment is its SQL text, whether its QueryId lets it be cached,
\* and the collector calls its collect_binds makes, in order.  The i-th call
\* serializes value i of type i: `ser` is what to_sql answers (IsNull::No,
\* IsNull::Yes, or Err); a push_is_value_none call carries column i, type i
\* and its flag.

Sqls == 1..NumSql

CallKinds ==
    { [ c |-> "push_bound_value", ser |-> s, flag |-> FALSE ] : s \in {"No", "Yes", "Err"} }
    \cup { [ c |-> "push_is_value_none", ser |-> "-", flag |-> f ] : f \in BOOLEAN }

CallSeqs == UNION { [1..n -> CallKinds] : n \in 0..MaxCalls }

Query(sql, cacheable, calls) == [ sql |-> sql, cacheable |-> cacheable, calls |-> calls ]

\* ---------------------------------------------- RawBytesBindCollector

\* RawBytesBindCollector::new
new_collector == [ metadata |-> <<>>, binds |-> <<>>, value_is_none |-> <<>> ]

\* (variant: binds is pushed before the to_sql result is examined)
push_bound_value_mut_partial(coll, i, ser) ==
    IF ser = "Err"
    THEN [ coll |-> [coll EXCEPT !.binds = Append(@, None)],
           res |-> SerializationError(i) ]
    ELSE [ coll |-> [coll EXCEPT !.binds = Append(@, IF ser = "No" THEN Some(i) ELSE None),
                                 !.metadata = Append(@, i)],
           res |-> Ok ]
\* push_bound_value: a to_sql error returns before anything is pushed;
\* otherwise one element is pushed to binds, then one to metadata.
push_bound_value(coll, i, ser) ==
    IF ser = "Err"
    THEN [ coll |-> coll, res |-> SerializationError(i) ]
    ELSE [ coll |-> [coll EXCEPT !.binds = Append(@, IF ser = "No" THEN Some(i) ELSE None),
                                 !.metadata = Append(@, i)],
           res |-> Ok ]

push_is_value_none(coll, column_name, sql_type, is_none) ==
    [ coll |-> [coll EXCEPT !.value_is_none =
                    Append(@, [ column_name |-> column_name, tpe |-> sql_type,
                                is_none |-> is_none ])],
      res |-> Ok ]

\* One call of the fragment's collect_binds on the collector.
collector_call(coll, call, i) ==
    IF call.c = "push_bound_value"
    THEN push_bound_value(coll, i, call.ser)
    ELSE push_is_value_none(coll, i, i, call.flag)

\* ------------------------------------------------------ StatementCache
\* (diesel/src/connection/statement_cache.rs is not among the sources;
\*  modelled from the specification, section 4.4)

Cached(cache, sql) == \E x \in 1..Len(cache) : cache[x] = sql

Count(cache, sql) == Cardinality({ x \in 1..Len(cache) : cache[x] = sql })

\* cached_statement(source, &[], prepare_fn): `prepOk` is what prepare_fn
\* answers if it is called.  called: prepare_fn ran; owned: the statement
\* returned is not the cache's.
cached_statement(cache, q, prepOk) ==
    IF ~q.cacheable
    THEN [ cache |-> cache, called |-> TRUE, owned |-> TRUE,
           res |-> IF prepOk THEN Ok ELSE QueryError(0) ]
    ELSE IF Cached(cache, q.sql)
    THEN [ cache |-> cache, called |-> FALSE, owned |-> FALSE, res |-> Ok ]
    ELSE [ cache |-> IF prepOk THEN Append(cache, q.sql) ELSE cache,
           called |-> TRUE, owned |-> FALSE,
           res |-> IF prepOk THEN Ok ELSE QueryError(0) ]

\* (variant: Statement::prepare is called directly, past the cache)
cached_prepared_statement_mut_bypass(cache, q, prepOk) ==
    [ cache |-> cache, called |-> TRUE, owned |-> TRUE,
      res |-> IF prepOk THEN Ok ELSE QueryError(0) ]
\* (variant: a new, empty StatementCache is used instead of the connection's)
cached_prepared_statement_mut_fresh_cache(cache, q, prepOk) ==
    cached_statement(<<>>, q, prepOk)
\* (variant: the cache is handed a fragment that always counts as cacheable)
cached_prepared_statement_mut_all_cacheable(cache, q, prepOk) ==
    cached_statement(cache, [q EXCEPT !.cacheable = TRUE], prepOk)
\* SqliteConnection::cached_prepared_statement: hands the fragment to the
\* statement cache with Statement::prepare as prepare_fn.
cached_prepared_statement(cache, q, prepOk) == cached_statement(cache, q, prepOk)

\* ------------------------------------------------------- prepare_query

QIdle == [ pc |-> "idle", q |-> Query(1, TRUE, <<>>), i |-> 1, coll |-> new_collector,
           j |-> 1, k |-> 1, bound |-> <<>>, result |-> Ok,
           cache0 |-> <<>>, called |-> FALSE, owned |-> FALSE, notified |-> FALSE,
           by |-> "-", steps |-> <<>>, rows |-> <<>>, out |-> Ok ]

Executions == 
    LET keys == Sqls \X BOOLEAN
        sum[S \in SUBSET keys] ==
            IF S = {} THEN 0
            ELSE LET x == CHOOSE x \in S : TRUE IN nrun[x] + sum[S \ {x}]
    IN sum[keys]

\* (variant: the Err is dropped and prepare_query goes on)
try_mut_ignore(res) == FALSE
\* try!(..) on a QueryResult: an Err returns from prepare_query at once.
try(res) == res.kind # "Ok"

\* lines 246-248: obtain the statement, make the collector.
prepare_query(q, prepOk) ==
    /\ QDone
    /\ Executions < MaxExec
    /\ LET c == cached_prepared_statement(statement_cache, q, prepOk)
           key == <<q.sql, q.cacheable>>
       IN  /\ statement_cache' = c.cache
           /\ nprep' = IF c.called /\ c.res = Ok THEN [nprep EXCEPT ![key] = @ + 1] ELSE nprep
           /\ nrun' = IF c.res = Ok THEN [nrun EXCEPT ![key] = @ + 1] ELSE nrun
           /\ pq' = [ QIdle EXCEPT !.pc = IF try(c.res) THEN "returned" ELSE "collect",
                                   !.q = q, !.result = c.res, !.cache0 = statement_cache,
                                   !.called = c.called, !.owned = c.owned,
                                   !.notified = prepare_fn_notifies(on_execute, c.called) ]
    /\ UNCHANGED <<txvars, udf, on_execute, last_exec>>

\* line 249, source.collect_binds: the fragment's next collector call; the
\* first Err ends collect_binds, and try! returns it from prepare_query.
collect_binds_step ==
    /\ pq.pc = "collect"
    /\ pq.i <= Len(pq.q.calls)
    /\ LET r == collector_call(pq.coll, pq.q.calls[pq.i], pq.i)
       IN  pq' = IF r.res = Ok
                 THEN [pq EXCEPT !.coll = r.coll, !.i = @ + 1]
                 ELSE IF try(r.res)
                 THEN [pq EXCEPT !.coll = r.coll, !.pc = "returned", !.result = r.res]
                 ELSE [pq EXCEPT !.coll = r.coll, !.pc = "bind"]
    /\ UNCHANGED <<txvars, udf, statement_cache, nrun, nprep, on_execute, last_exec>>

\* lines 249-253: collect_binds returned Ok; zip metadata with binds.
collect_binds_return ==
    /\ pq.pc = "collect"
    /\ pq.i > Len(pq.q.calls)
    /\ pq' = [pq EXCEPT !.pc = "bind"]
    /\ UNCHANGED <<txvars, udf, statement_cache, nrun, nprep, on_execute, last_exec>>

\* (variant: a flagged entry also takes a pair off zip_binds)
bind_source_mut_always_consume(e, coll, k) ==
    IF e.is_none
    THEN [ none |-> FALSE, tpe |-> e.tpe, value |-> None, k |-> k + 1 ]
    ELSE IF k > Min(Len(coll.metadata), Len(coll.binds))
    THEN [ none |-> TRUE, tpe |-> 0, value |-> None, k |-> k ]
    ELSE [ none |-> FALSE, tpe |-> coll.metadata[k], value |-> coll.binds[k], k |-> k + 1 ]
\* lines 258-264: what entry e of value_is_none binds, with k the next pair
\* of zip_binds: NULL with the entry's type and no pair consumed, or the
\* next pair.  none: zip_binds.next() is None.
bind_source(e, coll, k) ==
    IF e.is_none
    THEN [ none |-> FALSE, tpe |-> e.tpe, value |-> None, k |-> k ]
    ELSE IF k > Min(Len(coll.metadata), Len(coll.binds))
    THEN [ none |-> TRUE, tpe |-> 0, value |-> None, k |-> k ]
    ELSE [ none |-> FALSE, tpe |-> coll.metadata[k], value |-> coll.binds[k], k |-> k + 1 ]

\* Statement::bind(tpe, value): binds at the statement's next position.
\* (stmt.rs is not among the sources; specification section 4.2)
bind(bound, tpe, value) == Append(bound, [ tpe |-> tpe, value |-> value ])

\* lines 254-265, one iteration of the loop over value_is_none; `ok` is the
\* engine's answer to the bind, which try! returns from prepare_query when
\* it is an Err.  unwrap() of None panics.
bind_step(ok) ==
    /\ pq.pc = "bind"
    /\ pq.j <= Len(pq.coll.value_is_none)
    /\ LET s == bind_source(pq.coll.value_is_none[pq.j], pq.coll, pq.k)
           r == IF ok THEN Ok ELSE QueryError(pq.j)
       IN  pq' = IF s.none
                 THEN [pq EXCEPT !.pc = "panicked", !.result = Panic]
                 ELSE IF try(r)
                 THEN [pq EXCEPT !.k = s.k, !.pc = "returned", !.result = r]
                 ELSE [pq EXCEPT !.bound = IF r = Ok THEN bind(@, s.tpe, s.value) ELSE @,
                                 !.k = s.k, !.j = @ + 1, !.result = r]
    /\ UNCHANGED <<txvars, udf, statement_cache, nrun, nprep, on_execute, last_exec>>

\* line 267: the loop is over, Ok(statement).
prepare_query_return ==
    /\ pq.pc = "bind"
    /\ pq.j > Len(pq.coll.value_is_none)
    /\ pq' = [pq EXCEPT !.pc = "prepared"]
    /\ UNCHANGED <<txvars, udf, statement_cache, nrun, nprep, on_execute, last_exec>>

\* execute_returning_count line 149: try! hands prepare_query's Err to the
\* caller; statement and collector are gone.
execute_returning_count_err ==
    /\ pq.pc = "returned"
    /\ pq' = QIdle
    /\ UNCHANGED <<txvars, udf, statement_cache, nrun, nprep, on_execute, last_exec>>

\* execute_returning_count lines 150-152: the statement runs (`ok`: the
\* engine's answer, returned to the caller) and its use ends.
execute_returning_count_run(ok) ==
    /\ pq.pc = "prepared"
    /\ pq' = QIdle
    /\ last_exec' = Exec("statement", pq.q.sql, "", on_execute, pq.notified)
    /\ UNCHANGED <<txvars, udf, statement_cache, nrun, nprep, on_execute>>

\* ------------------------------------------- query_by_index / query_by_name

\* what a row-fetching call returns
Rows(rows) == [ kind |-> "Ok", cause |-> 0, rows |-> rows ]
Failed(e) == [ kind |-> e.kind, cause |-> e.cause, rows |-> <<>> ]
\* the row decoder's error for the row of the n-th step
DeserializationError(n) == [ kind |-> "DeserializationError", cause |-> n ]
\* an engine error at the n-th step
StepError(n) == [ kind |-> "StepError", cause |-> n ]

StepOutcomes == {"Row", "RowUndecodable", "Done", "Err"}

\* StatementIterator / NamedStatementIterator as Iterator::next: the n-th
\* step() of the statement; Row is decoded into an item, Done ends the
\* sequence, an error is an item.
\* (statement_iterator.rs is not among the sources; specification section 4.6)
iterator_next(outcome, n) ==
    IF outcome = "Done" THEN [ some |-> FALSE, item |-> Ok, row |-> 0 ]
    ELSE IF outcome = "Row" THEN [ some |-> TRUE, item |-> Ok, row |-> n ]
    ELSE IF outcome = "RowUndecodable"
    THEN [ some |-> TRUE, item |-> DeserializationError(n), row |-> 0 ]
    ELSE [ some |-> TRUE, item |-> StepError(n), row |-> 0 ]

\* (variant: the rows fetched before an error are returned as the result)
collect_mut_partial(rows, nx) ==
    IF ~nx.some THEN [ done |-> TRUE, rows |-> rows, out |-> Rows(rows) ]
    ELSE IF nx.item = Ok
    THEN [ done |-> FALSE, rows |-> Append(rows, nx.row), out |-> Ok ]
    ELSE [ done |-> TRUE, rows |-> rows, out |-> Rows(rows) ]
\* iter.collect() into QueryResult<Vec<U>>, for one item `nx` of the
\* iterator: an Ok item is pushed, the first Err item ends the collection
\* and is the result, the end of the iterator gives Ok(rows).
collect(rows, nx) ==
    IF ~nx.some THEN [ done |-> TRUE, rows |-> rows, out |-> Rows(rows) ]
    ELSE IF nx.item = Ok
    THEN [ done |-> FALSE, rows |-> Append(rows, nx.row), out |-> Ok ]
    ELSE [ done |-> TRUE, rows |-> <<>>, out |-> Failed(nx.item) ]

\* query_by_index lines 127-128 / query_by_name lines 139-140: the iterator
\* over the prepared statement; NamedStatementIterator::new can fail (`ok`).
query_begin(by, ok) ==
    /\ pq.pc = "prepared"
    /\ pq' = IF by = "name" /\ ~ok
             THEN [pq EXCEPT !.pc = "fetched", !.by = by, !.out = Failed(StepError(0))]
             ELSE [pq EXCEPT !.pc = "stepping", !.by = by]
    /\ last_exec' = IF by = "name" /\ ~ok THEN last_exec
                    ELSE Exec("statement", pq.q.sql, "", on_execute, pq.notified)
    /\ UNCHANGED <<txvars, udf, statement_cache, nrun, nprep, on_execute>>

\* lines 129 / 141, iter.collect(): the next item taken from the iterator.
\* At most MaxRows rows are in the result set.
collect_step(outcome) ==
    /\ pq.pc = "stepping"
    /\ Len(pq.steps) < MaxRows \/ outcome # "Row"
    /\ LET n == Len(pq.steps) + 1
           c == collect(pq.rows, iterator_next(outcome, n))
       IN  pq' = [pq EXCEPT !.steps = Append(@, outcome), !.rows = c.rows,
                            !.out = c.out,
                            !.pc = IF c.done THEN "fetched" ELSE "stepping"]
    /\ UNCHANGED <<txvars, udf, statement_cache, nrun, nprep, on_execute, last_exec>>

\* the call returns its Vec or its error to the caller
query_return ==
    /\ pq.pc = "fetched"
    /\ pq' = QIdle
    /\ UNCHANGED <<txvars, udf, statement_cache, nrun, nprep, on_execute, last_exec>>

\* ------------------------------------------------ register_sql_function

\* No function registered.  y: the closure's captured counter; y0: its value
\* when the statement in progress started; x, k: that statement applies the
\* function k times to x; results: what the invocations returned, in order.
NoUdf == [ registered |-> FALSE, y |-> 0, y0 |-> 0, x |-> 0, k |-> 0,
           results |-> <<>>, running |-> FALSE ]

\* (variant: the closure returns x + y before counting the invocation)
add_counter_mut_count_after(y, x) == [ y |-> y + 1, ret |-> x + y ]
\* the closure of register_nondeterministic_function: y += 1; x + y
add_counter(y, x) == [ y |-> y + 1, ret |-> x + (y + 1) ]

\* register_sql_function -> functions::register: the closure, with its
\* counter at 0, replaces any function registered before; `ok` is the
\* engine's answer.
\* (functions.rs is not among the sources; specification sections 6 and 8)
register_sql_function(ok) ==
    /\ QDone
    /\ ~udf.running
    /\ udf' = IF ok THEN [ NoUdf EXCEPT !.registered = TRUE ] ELSE udf
    /\ UNCHANGED <<txvars, qvars, on_execute, last_exec>>

\* select((add_counter(x), .. k times ..)): the statement starts.
select_begin(x, k) ==
    /\ QDone
    /\ udf.registered
    /\ ~udf.running
    /\ udf.y + k <= MaxCount
    /\ udf' = [ udf EXCEPT !.y0 = udf.y, !.x = x, !.k = k, !.results = <<>>,
                           !.running = TRUE ]
    /\ UNCHANGED <<txvars, qvars, on_execute, last_exec>>

\* The engine evaluates the next application of the function in the row: it
\* invokes the callback, which runs to completion and yields the value.
\* (engine behaviour, specification section 8)
apply_function ==
    /\ udf.running
    /\ Len(udf.results) < udf.k
    /\ LET r == add_counter(udf.y, udf.x)
       IN  udf' = [ udf EXCEPT !.y = r.y, !.results = Append(@, r.ret) ]
    /\ UNCHANGED <<txvars, qvars, on_execute, last_exec>>

\* get_result: the row is complete and returned.
select_return ==
    /\ udf.running
    /\ Len(udf.results) = udf.k
    /\ udf' = [ udf EXCEPT !.running = FALSE ]
    /\ UNCHANGED <<txvars, qvars, on_execute, last_exec>>

\* Connection::execute / batch_execute with a literal statement.
execute(ok) ==
    /\ QDone
    /\ last_exec' = batch_execute_exec("literal", on_execute)
    /\ UNCHANGED <<txvars, udf, qvars, on_execute>>

\* set_on_execute / clear_on_execute take &mut self: no call on the connection
\* is in progress.
set_on_execute ==
    /\ QDone
    /\ stack = <<>>
    /\ on_execute' = TRUE
    /\ UNCHANGED <<txvars, udf, qvars, last_exec>>

clear_on_execute ==
    /\ QDone
    /\ stack = <<>>
    /\ on_execute' = FALSE
    /\ UNCHANGED <<txvars, udf, qvars, last_exec>>

\* --------------------------------------------------------- specifications

TxInit ==
    /\ transaction_depth = 0
    /\ ROTX = FALSE
    /\ stack = <<>>
    /\ ret = NoRet
    /\ called_transaction = FALSE

ObsInit ==
    /\ on_execute = FALSE
    /\ last_exec = NoExec
    /\ udf = NoUdf

QInit ==
    /\ statement_cache = <<>>
    /\ pq = QIdle
    /\ nrun = [ x \in Sqls \X BOOLEAN |-> 0 ]
    /\ nprep = [ x \in Sqls \X BOOLEAN |-> 0 ]

Init == TxInit /\ QInit /\ ObsInit

TxNext ==
    \/ \E ok \in BOOLEAN : transaction(ok)
    \/ \E ok \in BOOLEAN : immediate_transaction(ok)
    \/ \E ok \in BOOLEAN : exclusive_transaction(ok)
    \/ \E fres \in {"Ok", "Err"}, ok \in BOOLEAN : f_returns(fres, ok)

QSteps ==
    \/ collect_binds_step
    \/ collect_binds_return
    \/ \E ok \in BOOLEAN : bind_step(ok)
    \/ prepare_query_return
    \/ execute_returning_count_err
    \/ \E ok \in BOOLEAN : execute_returning_count_run(ok)

\* every fragment shape, one SQL text
BindQueries == { Query(1, TRUE, calls) : calls \in CallSeqs }

\* every SQL text, cacheable or not, with no bind parameter or with one
\* column whose value is supplied
CacheQueries ==
    { Query(sql, c, calls) : sql \in Sqls, c \in BOOLEAN,
      calls \in { <<>>,
                  << [ c |-> "push_is_value_none", ser |-> "-", flag |-> FALSE ],
                     [ c |-> "push_bound_value", ser |-> "No", flag |-> FALSE ] >> } }

\* (QDone is prepare_query's own guard, stated before the inputs are drawn)
BindNext ==
    \/ QDone /\ \E q \in BindQueries, ok \in BOOLEAN : prepare_query(q, ok)
    \/ QSteps

CacheNext ==
    \/ QDone /\ \E q \in CacheQueries, ok \in BOOLEAN : prepare_query(q, ok)
    \/ QSteps

ObsNext ==
    \/ set_on_execute
    \/ clear_on_execute
    \/ \E ok \in BOOLEAN : execute(ok)

RowsNext ==
    \/ CacheNext
    \/ \E by \in {"index", "name"}, ok \in BOOLEAN : query_begin(by, ok)
    \/ \E outcome \in StepOutcomes : collect_step(outcome)
    \/ query_return

UdfNext ==
    \/ \E ok \in BOOLEAN : register_sql_function(ok)
    \/ \E x \in 0..MaxArg, k \in 1..MaxApply : select_begin(x, k)
    \/ apply_function
    \/ select_return

Next == TxNext \/ CacheNext

ObservedNext == ObsNext \/ CacheNext

\* transaction calls only
SpecTx == Init /\ [][TxNext]_vars

\* prepare_query over every fragment shape
SpecBind == Init /\ [][BindNext]_vars

\* repeated executions over the statement cache
SpecCache == Init /\ [][CacheNext]_vars

\* transaction calls and executions interleaved on one connection
Spec == Init /\ [][Next]_vars

\* statements applying a registered custom function
SpecUdf == Init /\ [][UdfNext]_vars

\* executions and row-fetching queries on one connection
SpecRows == Init /\ [][RowsNext]_vars

\* executions on one connection with an observer set and cleared between calls
SpecObserved == Init /\ [][ObservedNext]_vars

\* ---------------------------------------------------- transaction claims

\* C1: every call whose BEGIN succeeded issues, after f and before it returns,
\* exactly one of COMMIT (f returned Ok) and ROLLBACK (f returned Err), and
\* nothing else: the call's statements are <<begin, f, commit-or-rollback>>.
C1_CommitXorRollback ==
    (ret.op # "none" /\ ret.began) =>
        /\ Len(ret.issued) = 3
        /\ IsBegin(ret.issued[1])
        /\ ret.issued[2] = "f"
        /\ (ret.fres = "Ok" => IsCommit(ret.issued[3]))
        /\ (ret.fres = "Err" => IsRollback(ret.issued[3]))

C1_Witness ==
    /\ ret.op = "transaction"
    /\ ret.fres = "Err"
    /\ ret.issued = <<"BEGIN", "f", "ROLLBACK">>

C3_ReadonlyClearedOnExit ==
    (ret.op = "transaction" /\ stack = <<>>) => ~is_readonly_tx

\* C4: immediate_transaction / exclusive_transaction entered at depth >= 1
\* returns the transaction-state error, issues no statement at all (no BEGIN,
\* no COMMIT, no ROLLBACK), never invokes f and leaves the depth unchanged.
C4_NoSecondBegin ==
    (ret.op \in {"immediate_transaction", "exclusive_transaction"} /\ ret.depth0 >= 1) =>
        /\ ret.result = "Err(AlreadyInTransaction)"
        /\ ret.issued = <<>>
        /\ ~ret.began
        /\ ret.depth1 = ret.depth0

C4_Witness ==
    /\ ret.op = "immediate_transaction"
    /\ ret.depth0 >= 1
    /\ ret.result = "Err(AlreadyInTransaction)"
    /\ stack # <<>>

\* C12: when f returns Err(e) and the ROLLBACK that follows fails, the value
\* the call returns reports the rollback failure and still carries e.
C12_BothErrorsReported ==
    (ret.op # "none" /\ ret.began /\ ret.fres = "Err"
        /\ "rollback" \in ErrorsIn(ret.result)) =>
        {"e", "rollback"} \subseteq ErrorsIn(ret.result)

TxSqlOps == {"immediate_transaction", "exclusive_transaction"}

C18_FOnlyAfterBegin ==
    /\ \A x \in 1..Len(stack) :
          /\ Len(stack[x].issued) = 2
          /\ IsBegin(stack[x].issued[1])
          /\ stack[x].issued[2] = "f"
    /\ ret.op # "none" =>
          LET nf == Cardinality({ x \in 1..Len(ret.issued) : ret.issued[x] = "f" })
          IN  /\ nf <= 1
              /\ nf = 1 => (ret.began /\ IsBegin(ret.issued[1]) /\ ret.issued[2] = "f")
              /\ ~ret.began =>
                    /\ nf = 0
                    /\ ret.fres = "none"
                    /\ ErrorsIn(ret.result) = {"begin"}
                    /\ \A x \in 1..Len(ret.issued) :
                          ~IsCommit(ret.issued[x]) /\ ~IsRollback(ret.issued[x])

C18_Witness ==
    /\ ret.op = "transaction"
    /\ ~ret.began
    /\ ret.result = "Err(BeginError)"
    /\ ret.issued = <<"SAVEPOINT">>
    /\ Len(stack) = 1

\* C19: is_readonly_tx() is false before any transaction(f) call on the
\* thread, and true for as long as f runs inside transaction(f), also after a
\* nested transaction(g) called from f has returned.
C19_ReadonlyWhileFRuns ==
    /\ ~called_transaction => ~is_readonly_tx
    /\ (\E x \in 1..Len(stack) : stack[x].op = "transaction") => is_readonly_tx

C19_Witness ==
    /\ Len(stack) = 1
    /\ stack[1].op = "transaction"
    /\ ret.op = "transaction"
    /\ ret.began
    /\ ret.depth0 = 1
    /\ is_readonly_tx

\* ------------------------------------------------- prepare_query claims

IsPrefix(a, b) == Len(a) <= Len(b) /\ \A x \in 1..Len(a) : a[x] = b[x]

\* how many of the first p entries of value_is_none have flag false
Unflagged(vin, p) == Cardinality({ x \in 1..p : ~vin[x].is_none })

\* the collected pairs: metadata zipped with binds
NPairs(coll) == Min(Len(coll.metadata), Len(coll.binds))

CountsMatch(coll) == NPairs(coll) = Unflagged(coll.value_is_none, Len(coll.value_is_none))

\* what the claim says the statement receives: one bind per entry of
\* value_is_none, NULL at a flagged entry, the u-th collected pair at the
\* u-th unflagged entry
ExpectedBinds(coll) ==
    [ p \in 1..Len(coll.value_is_none) |->
        LET e == coll.value_is_none[p]
            u == Unflagged(coll.value_is_none, p)
        IN  IF e.is_none
            THEN [ tpe |-> e.tpe, value |-> None ]
            ELSE [ tpe |-> coll.metadata[u], value |-> coll.binds[u] ] ]

\* C5: with N entries in value_is_none, M of them flagged, and exactly N-M
\* collected pairs, the bind calls made are, in order, NULL at the flagged
\* positions and the i-th collected pair at the i-th unflagged position; a
\* statement that is returned has received all N of them.
C5_BindsFollowFlags ==
    (pq.pc \in {"bind", "prepared", "returned", "panicked"} /\ CountsMatch(pq.coll)) =>
        /\ pq.pc # "panicked"
        /\ IsPrefix(pq.bound, ExpectedBinds(pq.coll))
        /\ pq.pc = "prepared" => pq.bound = ExpectedBinds(pq.coll)

C5_Witness ==
    /\ pq.pc = "prepared"
    /\ Len(pq.coll.value_is_none) = 3
    /\ ~pq.coll.value_is_none[1].is_none
    /\ pq.coll.value_is_none[2].is_none
    /\ ~pq.coll.value_is_none[3].is_none
    /\ NPairs(pq.coll) = 2
    /\ pq.coll.binds[1].is_some
    /\ pq.coll.binds[2].is_some
    /\ pq.bound = << [ tpe |-> pq.coll.metadata[1], value |-> pq.coll.binds[1] ],
                     [ tpe |-> pq.coll.value_is_none[2].tpe, value |-> None ],
                     [ tpe |-> pq.coll.metadata[2], value |-> pq.coll.binds[2] ] >>

\* C6: prepare_query returns a statement only if the number of collected
\* pairs equals the number of unflagged value_is_none entries.
C6_MismatchFailsFast == pq.pc = "prepared" => CountsMatch(pq.coll)

\* the first collector call whose serialization fails (0: none does)
FirstErr(calls) ==
    LET bad == { x \in 1..Len(calls) : calls[x].c = "push_bound_value" /\ calls[x].ser = "Err" }
    IN  IF bad = {} THEN 0 ELSE CHOOSE x \in bad : \A y \in bad : x <= y

\* C7: nothing is bound while binds are being collected, and when a
\* parameter's serialization fails prepare_query returns SerializationError
\* wrapping that parameter's error with nothing bound: no bind is ever made.
C7_SerializationFailureBindsNothing ==
    /\ pq.pc = "collect" => pq.bound = <<>>
    /\ (pq.pc # "idle" /\ FirstErr(pq.q.calls) # 0) =>
            /\ pq.bound = <<>>
            /\ pq.pc \in {"collect", "returned"}
            /\ pq.pc = "returned" =>
                   pq.result \in { SerializationError(FirstErr(pq.q.calls)), QueryError(0) }

C7_Witness ==
    /\ pq.pc = "returned"
    /\ Len(pq.q.calls) = 3
    /\ pq.result = SerializationError(2)
    /\ Len(pq.coll.value_is_none) = 1
    /\ pq.bound = <<>>

\* the push_bound_value calls among the first n calls, in call order
BoundCalls(calls, n) == { x \in 1..n : calls[x].c = "push_bound_value" }

NthOf(S, p) == CHOOSE x \in S : Cardinality({ y \in S : y <= x }) = p

\* the collector after the first n calls have all succeeded
CollectedFrom(calls, n) ==
    LET B == BoundCalls(calls, n)
        V == { x \in 1..n : calls[x].c = "push_is_value_none" }
    IN  [ metadata |-> [ p \in 1..Cardinality(B) |-> NthOf(B, p) ],
          binds |-> [ p \in 1..Cardinality(B) |->
                        IF calls[NthOf(B, p)].ser = "Yes" THEN None ELSE Some(NthOf(B, p)) ],
          value_is_none |-> [ p \in 1..Cardinality(V) |->
                        [ column_name |-> NthOf(V, p), tpe |-> NthOf(V, p),
                          is_none |-> calls[NthOf(V, p)].flag ] ] ]

\* C8: metadata and binds always have equal length; each successful
\* push_bound_value has appended exactly one element to each (None for a NULL
\* value), and a call whose serialization fails returns SerializationError and
\* leaves the collector as it was before the call.
C8_CollectorParallel ==
    pq.pc # "idle" =>
        /\ Len(pq.coll.metadata) = Len(pq.coll.binds)
        /\ pq.coll = CollectedFrom(pq.q.calls, pq.i - 1)
        /\ (pq.pc = "returned" /\ pq.result.kind = "SerializationError") =>
               /\ pq.q.calls[pq.i].ser = "Err"
               /\ pq.result.cause = pq.i

C8_Witness ==
    /\ pq.pc = "returned"
    /\ pq.result = SerializationError(3)
    /\ pq.coll.binds = <<Some(1), None>>
    /\ pq.coll.metadata = <<1, 2>>

\* ------------------------------------------------- statement cache claims

\* C9: the cache holds at most one entry per SQL text; once a cacheable query
\* has been executed there is exactly one entry for its SQL text and exactly
\* one prepare was made for it, however many executions followed; an
\* execution that finds the entry does not call prepare.
C9_CachedOnce ==
    /\ \A s \in Sqls : Count(statement_cache, s) <= 1
    /\ \A s \in Sqls : nrun[<<s, TRUE>>] >= 1 =>
            /\ Count(statement_cache, s) = 1
            /\ nprep[<<s, TRUE>>] = 1
    /\ (pq.pc # "idle" /\ pq.q.cacheable /\ Cached(pq.cache0, pq.q.sql)) =>
            /\ ~pq.called
            /\ statement_cache = pq.cache0

C9_Witness ==
    /\ nrun[<<1, TRUE>>] >= 2
    /\ nprep[<<1, TRUE>>] = 1
    /\ Count(statement_cache, 1) = 1
    /\ pq.pc = "prepared"

\* C10: an execution of a query that is not cacheable leaves the cache as it
\* found it and prepares a fresh owned statement each time; with only such
\* executions the cache stays empty.
C10_UncachedNeverInserted ==
    /\ \A s \in Sqls : nprep[<<s, FALSE>>] = nrun[<<s, FALSE>>]
    /\ (pq.pc # "idle" /\ ~pq.q.cacheable) =>
            /\ statement_cache = pq.cache0
            /\ pq.called
            /\ pq.result.kind # "QueryError" \/ pq.result.cause # 0 => pq.owned
    /\ (\A s \in Sqls : nrun[<<s, TRUE>>] = 0) => statement_cache = <<>>

C10_Witness ==
    /\ nrun[<<1, FALSE>>] >= 2
    /\ statement_cache = <<>>
    /\ pq.pc = "prepared"
    /\ ~pq.q.cacheable

\* C14: when prepare_query returns a statement, every parameter the fragment
\* collected through push_bound_value has been bound to it, whether or not
\* the fragment called push_is_value_none.
C14_AllCollectedBound ==
    pq.pc = "prepared" =>
        /\ Len(pq.bound) >= NPairs(pq.coll)
        /\ \A p \in 1..NPairs(pq.coll) :
              \E x \in 1..Len(pq.bound) :
                  pq.bound[x] = [ tpe |-> pq.coll.metadata[p], value |-> pq.coll.binds[p] ]

\* C20: when the engine rejects the bind made for the k-th entry of
\* value_is_none, prepare_query returns that error at once: the entries
\* before the k-th are bound and none after it, no pair beyond those of the
\* first k entries has been taken, and no statement is returned.
C20_BindErrorReturnsAtOnce ==
    (pq.result.kind = "QueryError" /\ pq.result.cause >= 1) =>
        /\ pq.pc = "returned"
        /\ pq.j = pq.result.cause
        /\ Len(pq.bound) = pq.j - 1
        /\ pq.k - 1 = Unflagged(pq.coll.value_is_none, pq.j)

C20_Witness ==
    /\ pq.pc = "returned"
    /\ pq.result = QueryError(2)
    /\ pq.j < Len(pq.coll.value_is_none)
    /\ pq.k - 1 < NPairs(pq.coll)
    /\ Len(pq.bound) = 1

\* C16: no operation removes a statement from the cache: every SQL text
\* cached before a step is cached after it, and the cache never gets smaller.
C16_CacheNeverEvicts ==
    [][ /\ \A sql \in Sqls : Cached(statement_cache, sql) => Cached(statement_cache', sql)
        /\ Len(statement_cache') >= Len(statement_cache) ]_vars

C16_Witness ==
    /\ Len(statement_cache) = NumSql
    /\ pq.pc = "returned"
    /\ pq.result = QueryError(1)
    /\ ~pq.called

\* ---------------------------------------------------- row-fetching claims

\* C17: query_by_index / query_by_name return either every row, in step
\* order, up to Done, or the first error alone: after an error no further
\* step is made and no partial list is returned.
C17_AllRowsOrFirstError ==
    LET n == Len(pq.steps)
    IN  /\ \A x \in 1..(n - 1) : pq.steps[x] = "Row"
        /\ pq.pc = "stepping" =>
              /\ \A x \in 1..n : pq.steps[x] = "Row"
              /\ pq.rows = [ x \in 1..n |-> x ]
        /\ (pq.pc = "fetched" /\ n > 0) =>
              /\ pq.steps[n] # "Row"
              /\ pq.steps[n] = "Done" => pq.out = Rows([ x \in 1..(n - 1) |-> x ])
              /\ pq.steps[n] = "Err" => pq.out = Failed(StepError(n))
              /\ pq.steps[n] = "RowUndecodable" => pq.out = Failed(DeserializationError(n))
        /\ (pq.pc = "fetched" /\ n = 0) => pq.out = Failed(StepError(0))

C17_Witness ==
    /\ pq.pc = "fetched"
    /\ pq.steps = <<"Row", "Row", "Err">>
    /\ pq.out.kind = "StepError"
    /\ pq.out.rows = <<>>

\* ------------------------------------------------ custom function claims

C11_ObserverSeesEveryStatement == last_exec.registered => last_exec.notified

====
